---- MODULE Spec2Model ----
(***************************************************************************)
(* Model of transmeta's management command sync_transmeta_db               *)
(* (transmeta/management/commands/sync_transmeta_db.py).                   *)
(*                                                                         *)
(* The command walks over the translatable fields of the models, reads the *)
(* table's columns, builds with get_sync_sql the list of SQL sentences     *)
(* that bring the table in line with the configured languages, asks for    *)
(* confirmation and executes the sentences inside one transaction.atomic() *)
(* block.                                                                  *)
(*                                                                         *)
(* A SQL sentence is modelled as the sequence of the pieces the format     *)
(* strings of the source put together (the sentence is these pieces joined *)
(* by blanks).  Identifiers are built by string concatenation as the       *)
(* source builds them.                                                     *)
(***************************************************************************)
EXTENDS Integers, Sequences, FiniteSets, TLC

VARIABLES
    languages,              \* [i[0] for i in get_languages()]          (line 79)
    default_language,       \* options['default_language']              (line 67)
    assume_yes,             \* options['assume_yes']                    (line 66)
    vendor,                 \* connection.vendor                        (line 199)
    value_default_setting,  \* settings.TRANSMETA_VALUE_DEFAULT         (line 159)
    translatable_fields,    \* the translatable fields of the model     (line 83)
    field_null,             \* field_null[field][lang]: null of the model field field_lang
    plain_field,            \* what model._meta.get_field(field_name) finds (line 154):
                            \* "missing" (FieldDoesNotExist), a "null" or a "notnull" field
    db,                     \* the table as the connection sees it: column -> description
    committed,              \* the table as the database has committed it
    db_start,               \* the table when the command started
    pc,                     \* position of handle
    fi,                     \* index of field_name in translatable_fields (line 85)
    db_table_fields,        \* line 86
    db_change_langs,        \* line 87
    sql_sentences,          \* line 89
    executed,               \* sentences of the current field passed to cursor.execute
    found_db_change_fields, \* line 78
    asked,                  \* answers the current prompt has turned down
    input_called,           \* whether input() was called in this run
    last_answer,            \* the last answer read (as typed)
    log                     \* per field handled: what was generated, answered, executed

vars == <<languages, default_language, assume_yes, vendor, value_default_setting,
          translatable_fields, field_null, plain_field, db, committed, db_start,
          pc, fi, db_table_fields, db_change_langs, sql_sentences, executed,
          found_db_change_fields, asked, input_called, last_answer, log>>

config == <<languages, default_language, assume_yes, vendor, value_default_setting,
            translatable_fields, field_null, plain_field, db_start>>

(***************************************************************************)
(* Bounds of the model.                                                    *)
(***************************************************************************)
\* longest configured language list
MaxLangs == 2
\* most translatable fields of the model
MaxFields == 2
\* most answers that are neither yes nor no which one prompt reads
MaxAsk == 1

(***************************************************************************)
(* Settings, model metadata and framework functions.                       *)
(***************************************************************************)
Range(s) == {s[i] : i \in DOMAIN s}

\* Python's None, a missing setting or option
NoneValue == "<None>"

VALUE_DEFAULT == "WITHOUT VALUE"

\* language codes that may be configured or given with -d
LanguageCodes == {"en", "es", "fr"}

\* the translatable field names a model may declare
FieldNames == <<"title", "body", "summary">>

\* model._meta.db_table
db_table == "blog_post"

\* connection.vendor of the backends the command is run on
Vendors == {"mysql", "postgresql"}

\* field.db_type(connection): the column type of a translatable field, title
\* a CharField(max_length=200) and the others a TextField, which is longtext
\* on MySQL and text on the other backends
db_type(vend, field_name) ==
    IF field_name = "title" THEN "varchar(200)"
    ELSE IF vend = "mysql" THEN "longtext" ELSE "text"

\* settings.LANGUAGE_CODE
LANGUAGE_CODE == "en"

\* transmeta.mandatory_language(): the default language of the settings
mandatory_language == LANGUAGE_CODE

\* the language that is active while the command runs: none is activated,
\* so it is the one of the settings
get_language == LANGUAGE_CODE

\* transmeta.get_real_fieldname(field, lang)
get_real_fieldname(field, lang) == field \o "_" \o lang

\* the grave accent MySQL quotes names with, written by its code point (a
\* string of this language cannot hold the character itself)
Backtick == "<U+0060>"

\* connection.ops.quote_name: grave accents on MySQL, double quotes on the
\* other backends (no name of the model is quoted already)
qn(vend, name) ==
    IF vend = "mysql" THEN Backtick \o name \o Backtick ELSE "\"" \o name \o "\""

\* self.default_lang (line 75)
default_lang ==
    IF default_language \in {NoneValue, ""} THEN mandatory_language ELSE default_language

\* model._meta.get_field(name) of a per-language field; FieldDoesNotExist is exists = FALSE
NoField == [exists |-> FALSE, name |-> NoneValue, column |-> NoneValue, null |-> TRUE]

get_field(field_name, lang) ==
    [exists |-> TRUE,
     name   |-> get_real_fieldname(field_name, lang),
     column |-> get_real_fieldname(field_name, lang),
     null   |-> field_null[field_name][lang]]

(***************************************************************************)
(* Helpers of the command.                                                 *)
(***************************************************************************)
get_table_fields(table) == DOMAIN table

get_field_required_in_db_negated(table, field_name) ==
    IF field_name \in DOMAIN table THEN table[field_name].null_ok ELSE FALSE

get_field_required_in_db(table, field_name) ==
    IF field_name \in DOMAIN table THEN ~table[field_name].null_ok ELSE FALSE

get_db_change_languages(field_name, table_fields, langs) == langs

was_translatable_before_always(field_name, table_fields) == TRUE

was_translatable_before(field_name, table_fields) ==
    IF field_name \in table_fields THEN FALSE ELSE TRUE

RECURSIVE first_required_field(_, _)
first_required_field(field_name, i) ==
    IF i > Len(languages)
    THEN IF plain_field[field_name] = "missing"
         THEN NoField
         ELSE [exists |-> TRUE, name |-> field_name, column |-> field_name,
               null |-> plain_field[field_name] = "null"]
    ELSE IF ~get_field(field_name, languages[i]).null
         THEN get_field(field_name, languages[i])
         ELSE first_required_field(field_name, i + 1)

get_default_field(field_name) == first_required_field(field_name, 1)

get_value_default_fixed == VALUE_DEFAULT

get_value_default ==
    IF value_default_setting # NoneValue THEN value_default_setting ELSE VALUE_DEFAULT

\* lines 162-164: without a default field the field of the active language
\* is looked up, and model._meta.get_field raises FieldDoesNotExist when the
\* model has no field for that language
type_lookup_raises(field_name) ==
    /\ ~get_default_field(field_name).exists
    /\ get_language \notin Range(languages)

\* lines 161-169, when the lookup does not raise
get_type_of_db_field(vend, field_name) == db_type(vend, field_name)

(***************************************************************************)
(* get_sync_sql: the sentences for one field.                              *)
(***************************************************************************)
\* style.SQL_FIELD(qn(field_column)), style.SQL_COLTYPE(col_type)  (line 192)
field_sql(vend, field_column, col_type) == <<qn(vend, field_column), col_type>>

\* lines 194 and 200
alter_colum_set(vend, field_column, col_type) ==
    IF vend = "mysql"
    THEN <<"MODIFY", qn(vend, field_column), col_type>>
    ELSE <<"ALTER COLUMN", qn(vend, field_column), "SET">>

\* lines 196 and 203
alter_colum_drop(vend, field_column, col_type) ==
    IF vend = "mysql"
    THEN <<"MODIFY", qn(vend, field_column), col_type>>
    ELSE <<"ALTER COLUMN", qn(vend, field_column), "DROP">>

not_null_unchanged(vend) == "NOT NULL"

\* lines 197 and 201
not_null(vend) == IF vend = "mysql" THEN "NULL" ELSE "NOT NULL"

column_missing_always(new_field, table_fields) == TRUE

\* line 206
column_missing(new_field, table_fields) == new_field \notin table_fields

\* line 208
add_column_sql(vend, field_column, col_type) ==
    <<"ALTER TABLE", qn(vend, db_table), "ADD COLUMN">>
        \o field_sql(vend, field_column, col_type)

\* line 213
copy_sql(vend, field_column, field_name) ==
    <<"UPDATE", qn(vend, db_table), "SET", qn(vend, field_column), "=",
      qn(vend, field_name)>>

required_after_copy_always(f) == TRUE

\* line 214
required_after_copy(f) == ~f.null

\* lines 217 and 239
set_not_null_sql(vend, field_column, col_type) ==
    <<"ALTER TABLE", qn(vend, db_table)>> \o alter_colum_set(vend, field_column, col_type)
        \o <<"NOT NULL">>

\* lines 229-235
fill_default_sql(vend, field_column) ==
    <<"UPDATE", qn(vend, db_table), "SET", qn(vend, field_column), "=",
      "'" \o get_value_default \o "'",
      "WHERE", qn(vend, field_column), "is", "NULL", "or",
      qn(vend, field_column), "=", "''">>

\* lines 247-248
drop_not_null_sql(vend, field_column, col_type) ==
    <<"ALTER TABLE", qn(vend, db_table)>> \o alter_colum_drop(vend, field_column, col_type)
        \o <<not_null(vend)>>

\* line 253
drop_column_sql(vend, field_name) ==
    <<"ALTER TABLE", qn(vend, db_table), "DROP COLUMN", qn(vend, field_name)>>

\* one pass of the loop over db_change_langs (lines 184-249)
lang_sql(vend, field_name, lang, table_fields) ==
    LET translatable_before == was_translatable_before(field_name, table_fields)
        default_field == get_default_field(field_name)
        default_field_required ==
            default_field.exists /\ get_field_required_in_db(db, default_field.name)
        new_field == get_real_fieldname(field_name, lang)
        f == get_field(field_name, lang)
        col_type == get_type_of_db_field(vend, field_name)
        field_column == f.column
        f_required == get_field_required_in_db(db, field_column)
        creation ==
            IF column_missing(new_field, table_fields)
            THEN <<add_column_sql(vend, field_column, col_type)>>
            ELSE <<>>
    IN  creation \o
        IF lang = default_lang /\ ~translatable_before
        THEN <<copy_sql(vend, field_column, field_name)>> \o
             (IF required_after_copy(f)
              THEN <<set_not_null_sql(vend, field_column, col_type)>>
              ELSE <<>>)
        ELSE IF default_field.exists /\ ~default_field.null
        THEN IF lang = default_lang
             THEN IF default_field.name = new_field /\ default_field_required
                  THEN <<>>
                  ELSE IF ~f_required
                       THEN <<fill_default_sql(vend, field_column),
                              set_not_null_sql(vend, field_column, col_type)>>
                       ELSE <<>>
             ELSE IF f_required
                  THEN <<drop_not_null_sql(vend, field_column, col_type)>>
                  ELSE <<>>
        ELSE <<>>

RECURSIVE langs_sql(_, _, _, _, _)
\* the loop of line 183 from its i-th language on
langs_sql(vend, field_name, langs, table_fields, i) ==
    IF i > Len(langs)
    THEN <<>>
    ELSE lang_sql(vend, field_name, langs[i], table_fields)
            \o langs_sql(vend, field_name, langs, table_fields, i + 1)

\* get_sync_sql under a given connection.vendor
vendor_sync_sql(vend, field_name, langs, table_fields) ==
    langs_sql(vend, field_name, langs, table_fields, 1) \o
    (IF ~was_translatable_before(field_name, table_fields)
     THEN <<drop_column_sql(vend, field_name)>>
     ELSE <<>>)

get_sync_sql(field_name, langs, table_fields) ==
    vendor_sync_sql(vendor, field_name, langs, table_fields)

\* lines 185-191: the first pass of the loop looks up the column type; the
\* FieldDoesNotExist of the lookup is caught once and raised again by line 191
get_sync_sql_raises(field_name, langs) ==
    langs # <<>> /\ type_lookup_raises(field_name)

(***************************************************************************)
(* The database: what cursor.execute does to the table.  A column is       *)
(* described by null_ok (as introspection.get_table_description reports    *)
(* it) and by the set of values its rows hold.                             *)
(***************************************************************************)
NullValue == "<NULL>"

\* the values TRANSMETA_VALUE_DEFAULT may be set to, and the built-in one
DefaultValues == {VALUE_DEFAULT, "N/A"}

AllColumns ==
    {"id"} \cup {FieldNames[i] : i \in DOMAIN FieldNames}
           \cup {get_real_fieldname(FieldNames[i], l) :
                    i \in DOMAIN FieldNames, l \in LanguageCodes}

\* the column a quoted name stands for
column_named(token) == CHOOSE c \in AllColumns : \E v \in Vendors : qn(v, c) = token

\* the value a quoted literal stands for
value_quoted(token) == CHOOSE v \in DefaultValues : ("'" \o v \o "'") = token

sql_kind(s) ==
    IF s[1] = "UPDATE" THEN (IF Len(s) = 6 THEN "copy" ELSE "fill")
    ELSE IF s[3] = "ADD COLUMN" THEN "add"
    ELSE IF s[3] = "DROP COLUMN" THEN "drop"
    ELSE IF s[Len(s)] = "NULL" \/ s[5] = "DROP" THEN "nullable"
    ELSE "required"

\* whether the database executes the sentence (otherwise cursor.execute raises)
db_accepts(table, s) ==
    LET col == column_named(s[4])
    IN  CASE sql_kind(s) = "add"      -> col \notin DOMAIN table
          [] sql_kind(s) = "drop"     -> col \in DOMAIN table
          [] sql_kind(s) = "required" -> col \in DOMAIN table
                                         /\ NullValue \notin table[col].data
          [] sql_kind(s) = "nullable" -> col \in DOMAIN table
          [] sql_kind(s) = "copy"     ->
                /\ col \in DOMAIN table
                /\ column_named(s[6]) \in DOMAIN table
                /\ (table[col].null_ok
                    \/ NullValue \notin table[column_named(s[6])].data)
          [] sql_kind(s) = "fill"     -> col \in DOMAIN table

\* the table after the database executed the sentence
db_execute(table, s) ==
    LET col == column_named(s[4])
    IN  CASE sql_kind(s) = "add" ->
                [c \in DOMAIN table \cup {col} |->
                    IF c = col THEN [null_ok |-> TRUE, data |-> {NullValue}]
                    ELSE table[c]]
          [] sql_kind(s) = "drop" ->
                [c \in DOMAIN table \ {col} |-> table[c]]
          [] sql_kind(s) = "required" ->
                [table EXCEPT ![col].null_ok = FALSE]
          [] sql_kind(s) = "nullable" ->
                [table EXCEPT ![col].null_ok = TRUE]
          [] sql_kind(s) = "copy" ->
                [table EXCEPT ![col].data = table[column_named(s[6])].data]
          [] sql_kind(s) = "fill" ->
                [table EXCEPT ![col].data =
                    IF table[col].data \cap {NullValue, ""} = {}
                    THEN table[col].data
                    ELSE (table[col].data \ {NullValue, ""})
                            \cup {value_quoted(s[6])}]

\* ALTER TABLE ends the open transaction on MySQL (an implicit commit); the
\* other backends keep schema changes inside transaction.atomic()
db_commits(vend, s) == vend = "mysql" /\ s[1] = "ALTER TABLE"

(***************************************************************************)
(* ask_for_confirmation: an answer is the string input() returns, as the   *)
(* sequence of the code points of its characters.                          *)
(***************************************************************************)
\* the characters str.strip() removes, those str.isspace() holds of:
\* \t \n \v \f \r, U+001C..U+001F, the blank, U+0085, U+00A0, U+1680,
\* U+2000..U+200A, U+2028, U+2029, U+202F, U+205F, U+3000
Whitespace ==
    (9..13) \cup (28..32) \cup {133, 160, 5760} \cup (8192..8202)
        \cup {8232, 8233, 8239, 8287, 12288}

\* the characters of the answers: Latin-1 and the characters strip() removes
Characters == (0..255) \cup Whitespace

\* "y", " \tYeS\r", "", "n", "\xa0No", "ye", "non"
Answers ==
    { <<121>>, <<32, 9, 89, 101, 83, 13>>,
      <<>>, <<110>>, <<160, 78, 111>>,
      <<121, 101>>, <<110, 111, 110>> }

\* str.lower() of one character of Characters: A..Z and the capital letters
\* of Latin-1 (U+00C0..U+00DE but the multiplication sign) are 32 below
\* their small letters
lower_char(c) ==
    IF c \in (65..90) \cup ((192..222) \ {215}) THEN c + 32 ELSE c

lower(s) == [i \in DOMAIN s |-> lower_char(s[i])]

RECURSIVE lstrip(_)
lstrip(s) == IF s # <<>> /\ Head(s) \in Whitespace THEN lstrip(Tail(s)) ELSE s

RECURSIVE rstrip(_)
rstrip(s) ==
    IF s # <<>> /\ s[Len(s)] \in Whitespace
    THEN rstrip(SubSeq(s, 1, Len(s) - 1))
    ELSE s

strip(s) == rstrip(lstrip(s))

\* input(prompt).strip().lower()  (line 35)
normalized(answer) == lower(strip(answer))

answer_is_yes_unstripped(answer) == lower(answer) \in {<<121>>, <<121, 101, 115>>}

\* line 36: answer in ('y', 'yes')
answer_is_yes(answer) == normalized(answer) \in {<<121>>, <<121, 101, 115>>}

\* line 38: answer in ('', 'n', 'no')
answer_is_no(answer) == normalized(answer) \in {<<>>, <<110>>, <<110, 111>>}

(***************************************************************************)
(* The states the command may start in.                                    *)
(***************************************************************************)
\* settings.LANGUAGES: lists of distinct language codes
LanguageLists ==
    {s \in UNION {[1..n -> LanguageCodes] : n \in 0..MaxLangs} :
        \A i, j \in DOMAIN s : i # j => s[i] # s[j]}

\* the columns the command deals with for these fields and languages
ModelColumns(fields, langs) ==
    Range(fields) \cup
    {get_real_fieldname(f, l) : f \in Range(fields), l \in Range(langs)}

\* a table whose rows hold every kind of value its columns allow
table_of(status) ==
    [c \in {"id"} \cup {x \in DOMAIN status : status[x] # "absent"} |->
        IF c = "id" THEN [null_ok |-> FALSE, data |-> {"text"}]
        ELSE IF status[c] = "null"
             THEN [null_ok |-> TRUE, data |-> {NullValue, "", "text"}]
             ELSE [null_ok |-> FALSE, data |-> {"", "text"}]]

\* handle before its first field (lines 66-79)
InitHandle ==
    /\ committed = db
    /\ db_start = db
    /\ pc = "loop"
    /\ fi = 1
    /\ db_table_fields = {}
    /\ db_change_langs = <<>>
    /\ sql_sentences = <<>>
    /\ executed = <<>>
    /\ found_db_change_fields = FALSE
    /\ asked = 0
    /\ input_called = FALSE
    /\ last_answer = <<>>
    /\ log = <<>>

\* One translatable field, its per-language fields nullable or not in any
\* combination, over a table in any state, synchronized with --yes.  The name
\* of a translatable field is no field of the model any more, only its
\* per-language fields are.
InitSchema ==
    /\ languages \in LanguageLists
    /\ default_language \in {NoneValue, ""} \cup LanguageCodes
    /\ assume_yes = TRUE
    /\ vendor \in Vendors
    /\ value_default_setting \in {NoneValue, "N/A"}
    /\ translatable_fields = SubSeq(FieldNames, 1, 1)
    /\ field_null \in [Range(translatable_fields) -> [Range(languages) -> BOOLEAN]]
    /\ plain_field = [f \in Range(translatable_fields) |-> "missing"]
    /\ \E status \in [ModelColumns(translatable_fields, languages) ->
                        {"absent", "null", "notnull"}] :
            db = table_of(status)
    /\ InitHandle

\* Several fields that were declared translatable alike in a project of two
\* languages, over a table that has none of their per-language columns yet,
\* synchronized with or without --yes.
InitFields ==
    /\ languages \in {s \in LanguageLists : Len(s) = 2}
    /\ default_language \in {NoneValue, ""} \cup LanguageCodes
    /\ assume_yes \in BOOLEAN
    /\ vendor \in Vendors
    /\ value_default_setting = NoneValue
    /\ translatable_fields \in {SubSeq(FieldNames, 1, n) : n \in 2..MaxFields}
    /\ \E nulls \in [Range(languages) -> BOOLEAN] :
            field_null = [f \in Range(translatable_fields) |-> nulls]
    /\ plain_field = [f \in Range(translatable_fields) |-> "missing"]
    /\ \E status \in [Range(translatable_fields) -> {"absent", "null", "notnull"}] :
            db = table_of(status)
    /\ InitHandle

Init == InitSchema \/ InitFields

(***************************************************************************)
(* handle, step by step.                                                   *)
(***************************************************************************)
field_name == translatable_fields[fi]

log_entry(answer) ==
    [field |-> field_name, sql |-> sql_sentences, answer |-> answer,
     executed |-> executed]

\* lines 85-89: read the table, build the sentences of the next field
ReadField ==
    /\ pc = "loop"
    /\ fi <= Len(translatable_fields)
    /\ LET table_fields == get_table_fields(db)
           langs == get_db_change_languages(field_name, table_fields, languages)
       IN  /\ ~get_sync_sql_raises(field_name, langs)
           /\ db_table_fields' = table_fields
           /\ db_change_langs' = langs
           /\ executed' = <<>>
           /\ IF langs # <<>>
              THEN /\ sql_sentences' = get_sync_sql(field_name, langs, table_fields)
                   /\ pc' = "built"
                   /\ fi' = fi
              ELSE /\ sql_sentences' = <<>>
                   /\ pc' = "loop"
                   /\ fi' = fi + 1
    /\ UNCHANGED <<config, db, committed, found_db_change_fields, asked,
                   input_called, last_answer, log>>

\* lines 90-92: a field with nothing to synchronize is passed over
Announce ==
    /\ pc = "built"
    /\ IF sql_sentences # <<>>
       THEN /\ found_db_change_fields' = TRUE
            /\ pc' = "ask"
            /\ fi' = fi
       ELSE /\ found_db_change_fields' = found_db_change_fields
            /\ pc' = "loop"
            /\ fi' = fi + 1
    /\ UNCHANGED <<config, db, committed, db_table_fields, db_change_langs,
                   sql_sentences, executed, asked, input_called, last_answer, log>>

\* lines 30-33: --yes answers without reading
ConfirmAssumed ==
    /\ pc = "ask"
    /\ assume_yes
    /\ pc' = "exec"
    /\ UNCHANGED <<config, db, committed, fi, db_table_fields, db_change_langs,
                   sql_sentences, executed, found_db_change_fields, asked,
                   input_called, last_answer, log>>

\* lines 34-35: input(prompt) is called and waits for a line
CallInput ==
    /\ pc = "ask"
    /\ ~assume_yes
    /\ pc' = "input"
    /\ input_called' = TRUE
    /\ UNCHANGED <<config, db, committed, fi, db_table_fields, db_change_langs,
                   sql_sentences, executed, found_db_change_fields, asked,
                   last_answer, log>>

\* lines 35-40: input() returns a line; any other answer than yes and no
\* prints 'Please answer yes or no' and calls input() again
ReadAnswer(answer) ==
    /\ pc = "input"
    /\ last_answer' = answer
    /\ IF answer_is_yes(answer)
       THEN /\ pc' = "exec"
            /\ asked' = 0
       ELSE IF answer_is_no(answer)
       THEN /\ pc' = "refused"
            /\ asked' = 0
       ELSE /\ asked < MaxAsk
            /\ asked' = asked + 1
            /\ pc' = "input"
    /\ UNCHANGED <<config, db, committed, fi, db_table_fields, db_change_langs,
                   sql_sentences, executed, found_db_change_fields, input_called,
                   log>>

\* lines 99-100: 'SQL not executed', on to the next field
Refused ==
    /\ pc = "refused"
    /\ log' = Append(log, log_entry(FALSE))
    /\ pc' = "loop"
    /\ fi' = fi + 1
    /\ last_answer' = <<>>
    /\ UNCHANGED <<config, db, committed, db_table_fields, db_change_langs,
                   sql_sentences, executed, found_db_change_fields, asked,
                   input_called>>

\* line 96: the sentence the loop is at
next_sentence == sql_sentences[Len(executed) + 1]

\* lines 96-97: cursor.execute(sentence) succeeds
Execute ==
    /\ pc = "exec"
    /\ Len(executed) < Len(sql_sentences)
    /\ db_accepts(db, next_sentence)
    /\ db' = db_execute(db, next_sentence)
    /\ committed' = IF db_commits(vendor, next_sentence) THEN db' ELSE committed
    /\ executed' = Append(executed, next_sentence)
    /\ last_answer' = <<>>
    /\ UNCHANGED <<config, pc, fi, db_table_fields, db_change_langs, sql_sentences,
                   found_db_change_fields, asked, input_called, log>>

\* line 98: all the sentences of the field are executed
FieldExecuted ==
    /\ pc = "exec"
    /\ Len(executed) = Len(sql_sentences)
    /\ log' = Append(log, log_entry(TRUE))
    /\ pc' = "loop"
    /\ fi' = fi + 1
    /\ UNCHANGED <<config, db, committed, db_table_fields, db_change_langs,
                   sql_sentences, executed, found_db_change_fields, asked,
                   input_called, last_answer>>

\* line 71: transaction.atomic() is left with an exception; the connection
\* rolls back to what the database has committed
rolled_back == committed

\* the exception unwinds handle: its local variables are gone
Unwound ==
    /\ fi' = 1
    /\ db_table_fields' = {}
    /\ db_change_langs' = <<>>
    /\ sql_sentences' = <<>>
    /\ executed' = <<>>
    /\ found_db_change_fields' = FALSE
    /\ asked' = 0
    /\ last_answer' = <<>>

\* line 97: cursor.execute(sentence) raises
ExecuteRaises ==
    /\ pc = "exec"
    /\ Len(executed) < Len(sql_sentences)
    /\ pc' = "failed"
    /\ db' = rolled_back
    /\ Unwound
    /\ UNCHANGED <<config, committed, input_called, log>>

\* line 89: get_sync_sql raises FieldDoesNotExist
ReadFieldRaises ==
    /\ pc = "loop"
    /\ fi <= Len(translatable_fields)
    /\ get_sync_sql_raises(field_name,
            get_db_change_languages(field_name, get_table_fields(db), languages))
    /\ pc' = "failed"
    /\ db' = rolled_back
    /\ Unwound
    /\ UNCHANGED <<config, committed, input_called, log>>

\* Ctrl-C while the command is inside transaction.atomic() (line 70)
Cancel ==
    /\ pc \in {"loop", "built", "ask", "input", "refused", "exec"}
    /\ pc' = "cancelled"
    /\ db' = rolled_back
    /\ Unwound
    /\ UNCHANGED <<config, committed, input_called, log>>

\* lines 71 and 102: the loops end and transaction.atomic() commits
Commit ==
    /\ pc = "loop"
    /\ fi > Len(translatable_fields)
    /\ pc' = "done"
    /\ committed' = db
    /\ UNCHANGED <<config, db, fi, db_table_fields, db_change_langs,
                   sql_sentences, executed, found_db_change_fields, asked,
                   input_called, last_answer, log>>

Next ==
    \/ ReadField
    \/ Announce
    \/ ConfirmAssumed
    \/ CallInput
    \/ \E answer \in Answers : ReadAnswer(answer)
    \/ Refused
    \/ Execute
    \/ FieldExecuted
    \/ ExecuteRaises
    \/ ReadFieldRaises
    \/ Cancel
    \/ Commit

Spec == Init /\ [][Next]_vars

(***************************************************************************)
(* Properties.  In a state with pc = "built", sql_sentences is the list    *)
(* get_sync_sql returned for field_name, db_change_langs and               *)
(* db_table_fields, and db is the table it was computed against.           *)
(***************************************************************************)
Count(seq, Test(_)) == Len(SelectSeq(seq, Test))

\* the per-language column of the current field
Column(lang) == get_real_fieldname(field_name, lang)

\* the column is NOT NULL in the database
RequiredInDb(col) == col \in DOMAIN db /\ ~db[col].null_ok

\* the value the settings configure for empty required columns
ConfiguredValue ==
    IF value_default_setting # NoneValue THEN value_default_setting ELSE "WITHOUT VALUE"

DefaultFieldNonNull ==
    get_default_field(field_name).exists /\ ~get_default_field(field_name).null

\* the sentences as the specification words them
AddColumnOf(col) ==
    <<"ALTER TABLE", qn(vendor, db_table), "ADD COLUMN", qn(vendor, col), db_type(vendor, field_name)>>

CopyOf(col) == <<"UPDATE", qn(vendor, db_table), "SET", qn(vendor, col), "=", qn(vendor, field_name)>>

FillOf(col) ==
    <<"UPDATE", qn(vendor, db_table), "SET", qn(vendor, col), "=", "'" \o ConfiguredValue \o "'",
      "WHERE", qn(vendor, col), "is", "NULL", "or", qn(vendor, col), "=", "''">>

SetNotNullOf(col) ==
    IF vendor = "mysql"
    THEN <<"ALTER TABLE", qn(vendor, db_table), "MODIFY", qn(vendor, col), db_type(vendor, field_name), "NOT NULL">>
    ELSE <<"ALTER TABLE", qn(vendor, db_table), "ALTER COLUMN", qn(vendor, col), "SET", "NOT NULL">>

DropNotNullOf(col) ==
    IF vendor = "mysql"
    THEN <<"ALTER TABLE", qn(vendor, db_table), "MODIFY", qn(vendor, col), db_type(vendor, field_name), "NULL">>
    ELSE <<"ALTER TABLE", qn(vendor, db_table), "ALTER COLUMN", qn(vendor, col), "DROP", "NOT NULL">>

DropColumnOf(col) == <<"ALTER TABLE", qn(vendor, db_table), "DROP COLUMN", qn(vendor, col)>>

IsNullability(s) == s[3] \in {"ALTER COLUMN", "MODIFY"}

\* the sentences of the list that act on a column, in list order
SentencesOn(col) == SelectSeq(sql_sentences, LAMBDA s : s[4] = qn(vendor, col))

FollowedBy(a, b) ==
    \E i \in 1..(Len(sql_sentences) - 1) : sql_sentences[i] = a /\ sql_sentences[i + 1] = b

\* C1: for every processed language the list holds the ADD COLUMN sentence of
\* the language's column exactly once when the column is absent from
\* db_table_fields, and no ADD COLUMN for it when the column is present.
C1_AddColumnIffAbsent ==
    pc = "built" =>
        \A l \in Range(db_change_langs) :
            LET expected == IF Column(l) \in db_table_fields THEN 0 ELSE 1
            IN  /\ Count(sql_sentences, LAMBDA s : s = AddColumnOf(Column(l))) = expected
                /\ Count(sql_sentences,
                         LAMBDA s : s[3] = "ADD COLUMN" /\ s[4] = qn(vendor, Column(l))) = expected

C1_Witness ==
    /\ pc = "built"
    /\ \E l1, l2 \in Range(db_change_langs) :
            /\ Column(l1) \in db_table_fields
            /\ Column(l2) \notin db_table_fields
            /\ AddColumnOf(Column(l2)) \in Range(sql_sentences)

\* C2: when the legacy column is still in the table and the default language
\* is processed, the sentences on the default language's column are: its ADD
\* COLUMN if the column is absent, then the UPDATE copying the legacy column,
\* then SET NOT NULL exactly when the model field of the column is non-null.
C2_CopyThenRequire ==
    pc = "built" /\ field_name \in db_table_fields /\ default_lang \in Range(db_change_langs) =>
        LET col == Column(default_lang)
        IN  SentencesOn(col) =
                (IF col \in db_table_fields THEN <<>> ELSE <<AddColumnOf(col)>>)
                \o <<CopyOf(col)>>
                \o (IF field_null[field_name][default_lang]
                    THEN <<>>
                    ELSE <<SetNotNullOf(col)>>)

C2_Witness ==
    /\ pc = "built"
    /\ field_name \in db_table_fields
    /\ default_lang \in Range(db_change_langs)
    /\ ~field_null[field_name][default_lang]
    /\ SentencesOn(Column(default_lang)) =
            <<AddColumnOf(Column(default_lang)), CopyOf(Column(default_lang)),
              SetNotNullOf(Column(default_lang))>>

\* what C3 expects of the default language's column
FillsAndRequires(col) ==
    IF RequiredInDb(col)
    THEN /\ FillOf(col) \notin Range(sql_sentences)
         /\ SetNotNullOf(col) \notin Range(sql_sentences)
    ELSE FollowedBy(FillOf(col), SetNotNullOf(col))

\* C3 as claimed: whenever the default field is non-null and the default
\* language is processed, a column that is not yet required gets the UPDATE
\* with the configured default value immediately followed by SET NOT NULL,
\* and a column that is already required gets neither sentence.
C3_FillWhenNotRequired ==
    pc = "built" /\ DefaultFieldNonNull /\ default_lang \in Range(db_change_langs) =>
        FillsAndRequires(Column(default_lang))

\* C3 amended: the same, for a field that was translatable before (its
\* legacy column is not in the table).
C3_FillWhenTranslatableBefore ==
    pc = "built" /\ DefaultFieldNonNull /\ default_lang \in Range(db_change_langs)
                 /\ field_name \notin db_table_fields =>
        FillsAndRequires(Column(default_lang))

C3_Witness ==
    /\ pc = "built"
    /\ DefaultFieldNonNull
    /\ default_lang \in Range(db_change_langs)
    /\ field_name \notin db_table_fields
    /\ value_default_setting # NoneValue
    /\ ~RequiredInDb(Column(default_lang))
    /\ FollowedBy(FillOf(Column(default_lang)), SetNotNullOf(Column(default_lang)))

\* C4: when the default field is non-null, the nullability sentences on the
\* column of a processed language other than the default language are the
\* DROP NOT NULL of the column when the column is required in the database,
\* and none when it is nullable or missing.
C4_DropNotNullIffRequired ==
    pc = "built" /\ DefaultFieldNonNull =>
        \A l \in Range(db_change_langs) :
            l # default_lang =>
                SelectSeq(SentencesOn(Column(l)), IsNullability) =
                    IF RequiredInDb(Column(l))
                    THEN <<DropNotNullOf(Column(l))>>
                    ELSE <<>>

C4_Witness ==
    /\ pc = "built"
    /\ DefaultFieldNonNull
    /\ \E l1, l2 \in Range(db_change_langs) :
            /\ l1 # default_lang /\ l2 # default_lang
            /\ RequiredInDb(Column(l1))
            /\ DropNotNullOf(Column(l1)) \in Range(sql_sentences)
            /\ ~RequiredInDb(Column(l2))

\* C5: the list holds the DROP COLUMN of the legacy field exactly when
\* field_name is in db_table_fields; it then holds it once, as its last
\* sentence, and holds no other DROP COLUMN.
C5_DropLegacyLast ==
    pc = "built" =>
        LET drops == SelectSeq(sql_sentences, LAMBDA s : s[3] = "DROP COLUMN")
        IN  IF field_name \in db_table_fields
            THEN /\ drops = <<DropColumnOf(field_name)>>
                 /\ sql_sentences[Len(sql_sentences)] = DropColumnOf(field_name)
            ELSE drops = <<>>

C5_Witness ==
    /\ pc = "built"
    /\ field_name \in db_table_fields
    /\ Len(db_change_langs) >= 2
    /\ Len(sql_sentences) >= 4
    /\ sql_sentences[Len(sql_sentences)] = DropColumnOf(field_name)

\* the other kind of backend
OtherVendor == IF vendor = "mysql" THEN "postgresql" ELSE "mysql"

\* the list the other kind of backend would get for the same field and table
OtherVendorSql ==
    vendor_sync_sql(OtherVendor, field_name, db_change_langs, db_table_fields)

\* the list of MySQL and the list of the other backends
MySqlSql == IF vendor = "mysql" THEN sql_sentences ELSE OtherVendorSql

NotMySqlSql == IF vendor = "mysql" THEN OtherVendorSql ELSE sql_sentences

\* the names a sentence may quote
QuotedNames == AllColumns \cup {db_table}

\* a MySQL sentence with its names quoted and its column type written as the
\* other backends do
Requoted(m) ==
    [i \in DOMAIN m |->
        IF \E c \in QuotedNames : m[i] = qn("mysql", c)
        THEN qn("postgresql", CHOOSE c \in QuotedNames : m[i] = qn("mysql", c))
        ELSE IF m[i] = db_type("mysql", field_name)
        THEN db_type("postgresql", field_name)
        ELSE m[i]]

\* a nullability sentence of MySQL and the one of the other backends that
\* stands for it: require matches require, relax matches relax
SameNullability(m, o) ==
    /\ m[3] = "MODIFY" /\ o[3] = "ALTER COLUMN"
    /\ Requoted(m)[4] = o[4]
    /\ \/ m[6] = "NOT NULL" /\ o[5] = "SET"
       \/ m[6] = "NULL" /\ o[5] = "DROP"

\* every nullability sentence of the list has the syntax of the vendor
NullabilitySyntax ==
    \A i \in DOMAIN sql_sentences :
        LET s == sql_sentences[i]
        IN  IF vendor = "mysql"
            THEN /\ s[3] # "ALTER COLUMN"
                 /\ s[3] = "MODIFY" =>
                        /\ Len(s) = 6
                        /\ s[4] \in {qn(vendor, Column(l)) : l \in Range(db_change_langs)}
                        /\ s[5] = db_type(vendor, field_name)
                        /\ s[6] \in {"NOT NULL", "NULL"}
            ELSE /\ s[3] # "MODIFY"
                 /\ s[3] = "ALTER COLUMN" =>
                        /\ Len(s) = 6
                        /\ s[4] \in {qn(vendor, Column(l)) : l \in Range(db_change_langs)}
                        /\ <<s[5], s[6]>> \in {<<"SET", "NOT NULL">>, <<"DROP", "NOT NULL">>}

\* C6 as the specification states it: on MySQL every nullability sentence is
\* MODIFY <col> <type> NOT NULL or MODIFY <col> <type> NULL and none uses
\* ALTER COLUMN; on the other vendors every nullability sentence is ALTER
\* COLUMN <col> SET NOT NULL or ALTER COLUMN <col> DROP NOT NULL and none
\* uses MODIFY; the ADD COLUMN, UPDATE and DROP COLUMN sentences of the two
\* vendors are the same sentences.
C6_VendorSyntax ==
    pc = "built" =>
        /\ NullabilitySyntax
        /\ Len(OtherVendorSql) = Len(sql_sentences)
        /\ \A i \in DOMAIN sql_sentences :
                IF IsNullability(MySqlSql[i]) \/ IsNullability(NotMySqlSql[i])
                THEN SameNullability(MySqlSql[i], NotMySqlSql[i])
                ELSE MySqlSql[i] = NotMySqlSql[i]

\* C6, amended: the nullability sentences are as above; the ADD COLUMN,
\* UPDATE and DROP COLUMN sentences of the two vendors are the same but for
\* the quotes the backend puts around the names of the table and of the
\* columns and for the column type the backend gives the field.
C6_VendorSyntaxUpToQuoting ==
    pc = "built" =>
        /\ NullabilitySyntax
        /\ Len(OtherVendorSql) = Len(sql_sentences)
        /\ \A i \in DOMAIN sql_sentences :
                IF IsNullability(MySqlSql[i]) \/ IsNullability(NotMySqlSql[i])
                THEN SameNullability(MySqlSql[i], NotMySqlSql[i])
                ELSE Requoted(MySqlSql[i]) = NotMySqlSql[i]

C6_Witness ==
    /\ pc = "built"
    /\ vendor = "mysql"
    /\ \E i, j \in DOMAIN sql_sentences :
            /\ sql_sentences[i][3] = "MODIFY" /\ sql_sentences[i][6] = "NOT NULL"
            /\ sql_sentences[j][3] = "MODIFY" /\ sql_sentences[j][6] = "NULL"
    /\ \E i \in DOMAIN sql_sentences : sql_sentences[i][3] = "ADD COLUMN"
    /\ \E i \in DOMAIN sql_sentences : sql_sentences[i][1] = "UPDATE"
    /\ sql_sentences[Len(sql_sentences)] = DropColumnOf(field_name)

\* C7: when the command is cancelled or a sentence raises, the database is
\* back in the state it had when the command started.
C7_AllOrNothing ==
    pc \in {"failed", "cancelled"} => db = db_start

\* the answers the claim counts as yes and as no
ClaimedYes(answer) == normalized(answer) \in {<<121>>, <<121, 101, 115>>}

ClaimedNo(answer) == normalized(answer) \in {<<>>, <<110>>, <<110, 111>>}

\* C8: the sentences of a field are executed, all and in list order, exactly
\* when its confirmation is affirmative: with --yes always and without
\* reading input, otherwise only on y or yes (stripped, case-insensitive);
\* on the empty answer, n or no nothing of the field is executed; any other
\* answer is asked again and executes nothing.
C8_ExecutedIffConfirmed ==
    /\ \A i \in DOMAIN log :
            log[i].executed = IF log[i].answer THEN log[i].sql ELSE <<>>
    /\ pc = "exec" => executed = SubSeq(sql_sentences, 1, Len(executed))
    /\ pc \in {"built", "ask", "input", "refused"} => executed = <<>>
    /\ assume_yes => ~input_called /\ pc # "refused" /\ \A i \in DOMAIN log : log[i].answer
    /\ ~assume_yes /\ pc = "exec" /\ executed = <<>> => ClaimedYes(last_answer)
    /\ ~assume_yes /\ pc = "exec" => input_called
    /\ pc = "refused" => ClaimedNo(last_answer)
    /\ pc = "input" => ~assume_yes /\ input_called
    /\ pc = "input" /\ asked > 0 => ~ClaimedYes(last_answer) /\ ~ClaimedNo(last_answer)

C8_Witness ==
    /\ ~assume_yes
    /\ Len(log) = 2
    /\ ~log[1].answer /\ Len(log[1].sql) >= 2 /\ log[1].executed = <<>>
    /\ log[2].answer /\ Len(log[2].executed) >= 2
    /\ pc = "done"

\* C9: in a list that holds the DROP COLUMN of the legacy field, the UPDATE
\* copying the legacy column into the default language's column comes
\* earlier.
C9_CopyBeforeDrop ==
    pc = "built" =>
        \A i \in DOMAIN sql_sentences :
            sql_sentences[i] = DropColumnOf(field_name) =>
                \E j \in 1..(i - 1) : sql_sentences[j] = CopyOf(Column(default_lang))

\* C10: once all the sentences of a field are executed, get_sync_sql for the
\* same field, languages and default language against the resulting table
\* returns the empty list.
C10_SecondRunEmpty ==
    pc = "exec" /\ Len(executed) = Len(sql_sentences) =>
        get_sync_sql(field_name,
                     get_db_change_languages(field_name, get_table_fields(db), languages),
                     get_table_fields(db)) = <<>>

====
